---- MODULE Spec2Model ----
(***************************************************************************)
(* Connected-mode binding of SonarLint for VS Code                          *)
(* (src/src/connected/binding.ts, src/src/extension.ts).                    *)
(*                                                                          *)
(* The configuration of the host editor is modelled as one stored value of  *)
(* the setting 'sonarlint.connectedMode.project' per configuration scope:   *)
(* a workspace folder (its uri), or NoFolder when getConfiguration is       *)
(* called with an undefined scope.  A JavaScript `undefined` is the value   *)
(* Undef; a property missing from a stored object reads as Undef.           *)
(* The module also covers shouldBeAutoBound, the rule toggles of             *)
(* extension.ts (toggleRule) and the launch of the language server          *)
(* (runJavaServer), each under a specification of its own.                  *)
(***************************************************************************)
EXTENDS Integers, Sequences, FiniteSets, TLC

\* ---------------------------------------------------------------- bounds
MaxFolders == 2
MaxLaunches == 2
MaxConnections == 2

\* ------------------------------------------------------- program constants
DEFAULT_CONNECTION_ID == "<default>"
OPEN_FOLDER_ACTION == "Open Folder"
BIND_MANUALLY_ACTION == "Bind Manually"
deleteAction == "Delete"
OPEN_BROWSER == "vscode.open"
OPEN_FOLDER == "vscode.openFolder"
OPEN_FOLDER_SETTINGS_FILE == "workbench.action.openFolderSettingsFile"
NoFolderToBind == "No folder to bind, please open a workspace or folder first"
NoRemoteProjects == "No remote projects to display."
RequestFailed ==
  "Request Failed: Could not get the list of remote projects. Please check the connection."
SuggestedProjectsLabel == "Suggested Projects"
AllProjectsLabel == "All Projects"

\* ------------------------------------------------------------ value spaces
Undef == "<undefined>"
NoFolder == 0

FolderUris == 1..MaxFolders
Scopes == FolderUris \cup {NoFolder}
FolderNames == {"app", "lib"}
ConnectionIds == {"c1", "c2"}
ProjectKeys == {"k1", "k2"}
ProjectNames == {"Alpha", "Beta"}
ServerTypes == {"SonarQube", "SonarCloud"}

\* A VSCode.WorkspaceFolder: its uri and its display name.
WorkspaceFolder == [uri : FolderUris, name : FolderNames]

\* ProjectBinding, every property optional in a stored object.
ProjectBinding ==
  [connectionId : {Undef, ""} \cup ConnectionIds,
   projectKey : {Undef, ""} \cup ProjectKeys,
   serverId : {Undef, "c1"}]

\* The default {} of the setting, which config.get returns when nothing is stored.
EmptyBinding == [connectionId |-> Undef, projectKey |-> Undef, serverId |-> Undef]

\* JavaScript truthiness of an optional string, and a || b.
Truthy(s) == s # Undef /\ s # ""
Or(a, b) == IF Truthy(a) THEN a ELSE b

VARIABLES
  workspace,   \* [opened, folders]: VSCode.workspace.workspaceFolders (undefined when not opened)
  config,      \* per scope, the value config.get reads: the stored one, else the default
  confirm,     \* the modal deletion warning: << >>, or <<binding>> while it is open
  last,        \* the operation that completed last, with its arguments
  pc,          \* where the running createOrEditBinding waits ("idle": none runs)
  call,        \* the locals of the running createOrEditBinding
  quickPick,   \* the remote-project picker
  pending,     \* scopes whose 'No remote projects to display.' warning is still shown
  shown,       \* messages shown since createOrEditBinding was last invoked
  requests,    \* remote-project requests sent to the language server since then
  saved,       \* whether a binding was stored since then
  outcome,     \* the promise of createOrEditBinding: pending, resolved or rejected
  workspaceState,  \* the extension's workspace memento: key -> stored list
  rules,       \* the stored 'rules' setting: rule key -> entry
  javaServer   \* the running or finished runJavaServer call

storeVars == <<workspace, config, confirm, last>>
pickVars == <<pc, call, quickPick, pending, shown, requests, saved, outcome>>
hostVars == <<workspaceState, rules, javaServer>>
vars == <<workspace, config, confirm, last,
          pc, call, quickPick, pending, shown, requests, saved, outcome,
          workspaceState, rules, javaServer>>

\* ------------------------------------------------------- the host's config
\* getConfiguration(SONARLINT_CATEGORY, scope).get(BINDING_SETTINGS)
get(cfg, scope) == cfg[scope]

\* getConfiguration(SONARLINT_CATEGORY, scope).update(BINDING_SETTINGS, value);
\* updating to undefined removes the stored value, so that get reads the default.
update(cfg, scope, value) == [cfg EXCEPT ![scope] = value]
updateUndefined(cfg, scope) == [cfg EXCEPT ![scope] = EmptyBinding]

\* VSCode.workspace.workspaceFolders || []
workspaceFoldersOrEmpty(ws) == IF ws.opened THEN ws.folders ELSE << >>

\* ---------------------------------------------------------- BindingService
isBound(cfg, workspaceFolder) ==
  LET binding == get(cfg, workspaceFolder.uri)
  IN Truthy(binding.projectKey)

saveBindingLegacy(cfg, projectKey, connectionId, workspaceFolder) ==
  update(cfg, workspaceFolder.uri,
         [connectionId |-> Undef, projectKey |-> projectKey, serverId |-> connectionId])

saveBinding(cfg, projectKey, connectionId, workspaceFolder) ==
  update(cfg, workspaceFolder.uri,
         [connectionId |-> connectionId, projectKey |-> projectKey, serverId |-> Undef])

\* workspaceFolderItem instanceof WorkspaceFolderItem ? .uri : .folder
folderOf(workspaceFolderItem) ==
  IF "uri" \in DOMAIN workspaceFolderItem
  THEN workspaceFolderItem.uri
  ELSE workspaceFolderItem.folder

deleteBindingUnscoped(cfg, workspaceFolderItem) == updateUndefined(cfg, NoFolder)

deleteBinding(cfg, workspaceFolderItem) ==
  LET folder == folderOf(workspaceFolderItem)
  IN updateUndefined(cfg, folder.uri)

\* Map<K, V> as a function; has / set.
EmptyMap == [k \in {} |-> << >>]
MapHas(m, k) == k \in DOMAIN m
MapSet(m, k, v) == [x \in (DOMAIN m) \cup {k} |-> IF x = k THEN v ELSE m[x]]

RECURSIVE getAllBindingsNoLegacy(_, _, _)
getAllBindingsNoLegacy(wf, cfg, n) ==
  IF n = 0 THEN EmptyMap
  ELSE
    LET acc == getAllBindingsNoLegacy(wf, cfg, n - 1)
        folder == wf[n]
        binding == get(cfg, folder.uri)
        projectKey == binding.projectKey
        connectionId == Or(binding.connectionId, DEFAULT_CONNECTION_ID)
        perKey == IF MapHas(acc, connectionId) THEN acc[connectionId] ELSE EmptyMap
        list == IF MapHas(perKey, projectKey) THEN perKey[projectKey] ELSE << >>
    IN IF Truthy(projectKey)
       THEN MapSet(acc, connectionId,
                   MapSet(perKey, projectKey,
                          Append(list, [folder |-> folder, binding |-> binding])))
       ELSE acc

\* The loop of getAllBindings over the first n workspace folders.
RECURSIVE getAllBindingsUpTo(_, _, _)
getAllBindingsUpTo(wf, cfg, n) ==
  IF n = 0 THEN EmptyMap
  ELSE
    LET acc == getAllBindingsUpTo(wf, cfg, n - 1)
        folder == wf[n]
        binding == get(cfg, folder.uri)
        projectKey == binding.projectKey
        connectionId == Or(Or(binding.connectionId, binding.serverId), DEFAULT_CONNECTION_ID)
        perKey == IF MapHas(acc, connectionId) THEN acc[connectionId] ELSE EmptyMap
        list == IF MapHas(perKey, projectKey) THEN perKey[projectKey] ELSE << >>
    IN IF Truthy(projectKey)
       THEN MapSet(acc, connectionId,
                   MapSet(perKey, projectKey,
                          Append(list, [folder |-> folder, binding |-> binding])))
       ELSE acc

getAllBindings(ws, cfg) ==
  LET wf == workspaceFoldersOrEmpty(ws)
  IN getAllBindingsUpTo(wf, cfg, Len(wf))

\* The folders of one connection's bindings, over every project key's list.
foldersOf(bindingsForConnection) ==
  UNION {{bindingsForConnection[k][i] : i \in 1..Len(bindingsForConnection[k])} :
           k \in DOMAIN bindingsForConnection}

\* folders.map(f => this.deleteBinding(f)), all of them completed.
RECURSIVE deleteAll(_, _)
deleteAll(cfg, folders) ==
  IF folders = {} THEN cfg
  ELSE LET f == CHOOSE x \in folders : TRUE
       IN deleteAll(deleteBinding(cfg, f), folders \ {f})

deleteBindingsForConnectionNoDefault(ws, cfg, connection) ==
  LET connectionId == connection.id
      allBindings == getAllBindings(ws, cfg)
  IN IF MapHas(allBindings, connectionId)
     THEN deleteAll(cfg, foldersOf(allBindings[connectionId]))
     ELSE cfg

deleteBindingsForConnection(ws, cfg, connection) ==
  LET connectionId == Or(connection.id, DEFAULT_CONNECTION_ID)
      allBindings == getAllBindings(ws, cfg)
  IN IF MapHas(allBindings, connectionId)
     THEN deleteAll(cfg, foldersOf(allBindings[connectionId]))
     ELSE cfg

deleteBindingWithConfirmationAlways(cfg, binding, answer) ==
  deleteBinding(cfg, binding)

\* What deleteBindingWithConfirmation does once the modal warning is answered.
deleteBindingWithConfirmation(cfg, binding, answer) ==
  IF answer # deleteAction THEN cfg
  ELSE deleteBinding(cfg, binding)


\* ------------------------------------------------- the remote-project picker
\* if (!serverType) serverType = contextValue === 'sonarqubeConnection' ? ... : ...
serverTypeOf(serverType, contextValue) ==
  IF Truthy(serverType) THEN serverType
  ELSE IF contextValue = "sonarqubeConnection" THEN "SonarQube" ELSE "SonarCloud"

\* workspaceFolders.find(f => f.name === selectedFolderName): << >> is undefined.
RECURSIVE findFrom(_, _, _)
findFrom(workspaceFolders, name, i) ==
  IF i > Len(workspaceFolders) THEN << >>
  ELSE IF workspaceFolders[i].name = name THEN <<workspaceFolders[i]>>
  ELSE findFrom(workspaceFolders, name, i + 1)
find(workspaceFolders, name) == findFrom(workspaceFolders, name, 1)

\* The scope getConfiguration(SONARLINT_CATEGORY, workspaceFolder) reads and writes.
scopeOf(workspaceFolder) ==
  IF workspaceFolder = << >> THEN NoFolder ELSE workspaceFolder[1].uri

bindManuallyActionAlways(cfg, workspaceFolder) ==
  update(cfg, scopeOf(workspaceFolder),
         [connectionId |-> "", projectKey |-> "", serverId |-> Undef])

bindManuallyAction(cfg, workspaceFolder) ==
  LET existingSettings == get(cfg, scopeOf(workspaceFolder))
  IN IF existingSettings.projectKey = Undef
     THEN update(cfg, scopeOf(workspaceFolder),
                 [connectionId |-> "", projectKey |-> "", serverId |-> Undef])
     ELSE cfg

\* A quick-pick item of a remote project, and a separator.
Item(label, description, serverType) ==
  [kind |-> "item", label |-> label, description |-> description,
   tooltip |-> IF serverType = "SonarQube" THEN "View in SonarQube" ELSE "View in SonarCloud"]
Separator(label) ==
  [kind |-> "separator", label |-> label, description |-> Undef, tooltip |-> Undef]

\* remoteProjects.forEach((v, k) => itemsList.push(...)), in the map's order.
toItems(remoteProjects, serverType) ==
  [i \in 1..Len(remoteProjects) |->
     Item(remoteProjects[i].name, remoteProjects[i].key, serverType)]

\* i1.label.localeCompare(i2.label, 'en') over the project names of the model.
collation(label) == IF label = "Alpha" THEN 1 ELSE 2
localeCompare(l1, l2) ==
  IF collation(l1) < collation(l2) THEN -1
  ELSE IF collation(l1) > collation(l2) THEN 1 ELSE 0

\* Array.prototype.sort with the comparator above: a stable sort.
RECURSIVE insertSorted(_, _)
insertSorted(sorted, item) ==
  IF sorted = << >> THEN <<item>>
  ELSE IF localeCompare(sorted[Len(sorted)].label, item.label) <= 0
       THEN Append(sorted, item)
       ELSE Append(insertSorted(SubSeq(sorted, 1, Len(sorted) - 1), item),
                   sorted[Len(sorted)])
RECURSIVE sortUpTo(_, _)
sortUpTo(itemsList, n) ==
  IF n = 0 THEN << >> ELSE insertSorted(sortUpTo(itemsList, n - 1), itemsList[n])
sort(itemsList) == sortUpTo(itemsList, Len(itemsList))

\* remoteProjects.filter(rp => rp.description !== sp.description)
RECURSIVE filterOut(_, _)
filterOut(remoteProjects, description) ==
  IF remoteProjects = << >> THEN << >>
  ELSE LET rest == filterOut(Tail(remoteProjects), description)
       IN IF Head(remoteProjects).description # description
          THEN <<Head(remoteProjects)>> \o rest ELSE rest

deduplicateByLabel(suggestedProjects, remoteProjects) ==
  LET labels == {suggestedProjects[i].label : i \in 1..Len(suggestedProjects)}
  IN SelectSeq(remoteProjects, LAMBDA rp : rp.label \notin labels)

RECURSIVE deduplicateQuickPickItems(_, _)
deduplicateQuickPickItems(suggestedProjects, remoteProjects) ==
  IF suggestedProjects = << >> THEN remoteProjects
  ELSE deduplicateQuickPickItems(Tail(suggestedProjects),
                                 filterOut(remoteProjects, Head(suggestedProjects).description))

\* The itemsList getRemoteProjectsItems returns for a response of the language
\* server (response.ok = FALSE: the request failed and the catch block ran).
getRemoteProjectsItems(response, serverType) ==
  sort(IF response.ok THEN toItems(response.projects, serverType) ELSE << >>)

\* remoteProjectsQuickPick.items
quickPickItems(suggestedProjects, remoteProjectsItems) ==
  <<Separator(SuggestedProjectsLabel)>> \o suggestedProjects \o
  <<Separator(AllProjectsLabel)>> \o remoteProjectsItems

\* --------------------------------------------------------------- auto-binding
DO_NOT_ASK_ABOUT_AUTO_BINDING_FOR_FOLDER_FLAG == "doNotAskAboutAutoBindingForFolder"

\* workspaceFolder.uri.toString()
uriToString(uri) == "file:///ws/" \o ToString(uri)

\* Array.prototype.includes
includes(list, s) == \E i \in 1..Len(list) : list[i] = s

\* workspaceState.get<string[]>(key, []): the memento holds one list per key.
mementoGet(memento, key) == IF key \in DOMAIN memento THEN memento[key] ELSE << >>

shouldBeAutoBoundIgnoringFlag(cfg, memento, workspaceFolder) ==
  ~isBound(cfg, workspaceFolder)

shouldBeAutoBound(cfg, memento, workspaceFolder) ==
  LET foldersToBeIgnored == mementoGet(memento, DO_NOT_ASK_ABOUT_AUTO_BINDING_FOR_FOLDER_FLAG)
  IN ~isBound(cfg, workspaceFolder) /\
     ~includes(foldersToBeIgnored, uriToString(workspaceFolder.uri))

\* ---------------------------------------------------------------- toggleRule
\* The argument of the command: a rule key string (from a code action), or a
\* RuleNode of the list of rules, which carries the rule.
StringKey(key) == [string |-> key]
RuleNode(key, activeByDefault) == [rule |-> [key |-> key, activeByDefault |-> activeByDefault]]

\* typeof ruleKey === 'string'
isString(ruleKey) == "string" \in DOMAIN ruleKey

\* configuration.get('rules') || {}: the object in memory, each property holding
\* <<value>>, or << >> once it is assigned undefined.
getRules(stored) == [k \in DOMAIN stored |-> <<stored[k]>>]

\* configuration.update('rules', rules, Global): the object is stored as JSON, which
\* leaves out the properties whose value is undefined.
updateRules(object) ==
  [k \in {x \in DOMAIN object : object[x] # << >>} |-> object[k][1]]

toggleRuleAlwaysOverrides(stored, level, ruleKey) ==
  LET object == getRules(stored)
      key == IF isString(ruleKey) THEN ruleKey.string ELSE ruleKey.rule.key
  IN updateRules(MapSet(object, key, <<[level |-> level]>>))

toggleRuleAssumesInactive(stored, level, ruleKey) ==
  LET object == getRules(stored)
      key == IF isString(ruleKey) THEN ruleKey.string ELSE ruleKey.rule.key
      activeByDefault == IF isString(ruleKey) THEN FALSE ELSE ruleKey.rule.activeByDefault
  IN IF (level = "on" /\ ~activeByDefault) \/ (level = "off" /\ activeByDefault)
     THEN updateRules(MapSet(object, key, <<[level |-> level]>>))
     ELSE updateRules(MapSet(object, key, << >>))

\* The function toggleRule(level) returns, applied to ruleKey, as the stored
\* 'rules' setting it leaves.
toggleRule(stored, level, ruleKey) ==
  LET object == getRules(stored)
  IN IF isString(ruleKey)
     THEN updateRules(MapSet(object, ruleKey.string, <<[level |-> level]>>))
     ELSE LET key == ruleKey.rule.key
              activeByDefault == ruleKey.rule.activeByDefault
          IN IF (level = "on" /\ ~activeByDefault) \/ (level = "off" /\ activeByDefault)
             THEN updateRules(MapSet(object, key, <<[level |-> level]>>))
             ELSE updateRules(MapSet(object, key, << >>))

\* ------------------------------------------------------------------ state
\* workspaceFolders with n folders (uris 1..n), each with some name.
Workspaces ==
  {[opened |-> FALSE, folders |-> << >>]} \cup
  UNION {{[opened |-> TRUE, folders |-> [i \in 1..n |-> [uri |-> i, name |-> nm[i]]]] :
            nm \in [1..n -> FolderNames]} : n \in 0..MaxFolders}

\* The same, every folder but the first named "lib".
PlainWorkspaces ==
  {ws \in Workspaces :
     \A i \in 1..Len(ws.folders) : ws.folders[i].name = (IF i = 1 THEN "app" ELSE "lib")}

\* Workspaces whose folders after the second are named "lib": two folders may
\* share a name.
NamedWorkspaces ==
  {ws \in Workspaces :
     \A i \in 1..Len(ws.folders) :
       /\ i = 1 => ws.folders[i].name = "app"
       /\ i > 2 => ws.folders[i].name = "lib"}

foldersIn(ws) == {ws.folders[i] : i \in 1..Len(ws.folders)}
urisIn(ws) == {f.uri : f \in foldersIn(ws)}

\* The workspace folder with the given uri.
FolderAt(ws, uri) == CHOOSE f \in foldersIn(ws) : f.uri = uri

\* The record kept in `last`: the operation, its arguments, the user's answer (if it
\* asked), whether saveBinding had just stored the value it removed (deleteBinding),
\* the scopes whose stored value it removed, and the command it executed.
OpCmd(name, uri, c, k, a, by, gone, cmd) ==
  [op |-> name, folder |-> uri, connectionId |-> c, projectKey |-> k, answer |-> a,
   afterSave |-> by, removed |-> gone, command |-> cmd]
NoCommand == [name |-> Undef, arg |-> Undef]
Op(name, uri, c, k, a, by, gone) == OpCmd(name, uri, c, k, a, by, gone, NoCommand)
NoOp == Op("none", NoFolder, Undef, Undef, Undef, FALSE, {})

\* A WorkspaceFolderItem of the connections tree for a workspace folder.
WorkspaceFolderItem(folder) == [uri |-> folder, name |-> folder.name]

\* A Connection of the connections tree: its id may be missing or empty.
Connections == [id : {Undef, ""} \cup ConnectionIds]

\* The picker before it is created and after it is disposed or hidden.
NoQuickPick ==
  [open |-> FALSE, busy |-> FALSE, items |-> << >>, connectionId |-> Undef,
   workspaceFolder |-> << >>, serverType |-> Undef,
   suggestedProjects |-> << >>, remoteProjects |-> << >>]
NoCall ==
  [connectionId |-> Undef, serverType |-> Undef, workspaceFolder |-> << >>,
   suggestedProjects |-> << >>]

\* Before runJavaServer is first called: no requirements asked, no server created,
\* no process spawned, no promise.
NoJavaServer ==
  [launches |-> 0, verbose |-> FALSE, requirements |-> "none", javaHome |-> Undef,
   error |-> << >>, shownError |-> << >>, prompt |-> FALSE,
   created |-> FALSE, listening |-> << >>, process |-> << >>, sockets |-> << >>,
   promise |-> [state |-> "none", value |-> << >>], log |-> << >>]

\* Nothing stored in the workspace state or under 'rules', and no server launched.
HostIdle ==
  /\ workspaceState = EmptyMap
  /\ rules = EmptyMap
  /\ javaServer = NoJavaServer

\* No createOrEditBinding has been invoked.
PickIdle ==
  /\ pc = "idle"
  /\ call = NoCall
  /\ quickPick = NoQuickPick
  /\ pending = {}
  /\ shown = {}
  /\ requests = 0
  /\ saved = FALSE
  /\ outcome = "none"

TypeOK ==
  /\ workspace \in Workspaces
  /\ config \in [Scopes -> ProjectBinding]
  /\ Len(confirm) <= 1

\* Settings as found at activation: per folder nothing, or whatever settings.json
\* holds (a binding, a legacy serverId, a hand-written value).
StoreInit ==
  /\ workspace \in PlainWorkspaces
  /\ config \in [Scopes -> ProjectBinding]
  /\ \A s \in Scopes \ urisIn(workspace) : config[s] = EmptyBinding
  /\ confirm = << >>
  /\ last = NoOp
  /\ PickIdle
  /\ HostIdle

\* ---------------------------------------------------------------- actions
SaveBinding(projectKey, connectionId, workspaceFolder) ==
  /\ confirm = << >>
  /\ config' = saveBinding(config, projectKey, connectionId, workspaceFolder)
  /\ last' = Op("saveBinding", workspaceFolder.uri, connectionId, projectKey, Undef, FALSE, {})
  /\ UNCHANGED <<workspace, confirm>>
  /\ UNCHANGED pickVars
  /\ UNCHANGED hostVars

DeleteBinding(workspaceFolderItem) ==
  /\ confirm = << >>
  /\ config' = deleteBinding(config, workspaceFolderItem)
  /\ last' = Op("deleteBinding", folderOf(workspaceFolderItem).uri, Undef, Undef, Undef,
                last.op = "saveBinding" /\ last.folder = folderOf(workspaceFolderItem).uri,
                {folderOf(workspaceFolderItem).uri})
  /\ UNCHANGED <<workspace, confirm>>
  /\ UNCHANGED pickVars
  /\ UNCHANGED hostVars

DeleteBindingsForConnection(connection) ==
  /\ confirm = << >>
  /\ config' = deleteBindingsForConnection(workspace, config, connection)
  /\ last' = Op("deleteBindingsForConnection", NoFolder, connection.id, Undef, Undef, FALSE,
                {s \in Scopes : config'[s] # config[s]})
  /\ UNCHANGED <<workspace, confirm>>
  /\ UNCHANGED pickVars
  /\ UNCHANGED hostVars

\* REMOVE_PROJECT_BINDING: the modal warning opens.
DeleteBindingWithConfirmation(binding) ==
  /\ confirm = << >>
  /\ confirm' = <<binding>>
  /\ last' = Op("showWarningMessage", binding.uri.uri, Undef, Undef, Undef, FALSE, {})
  /\ UNCHANGED <<workspace, config>>
  /\ UNCHANGED pickVars
  /\ UNCHANGED hostVars

\* The user answers the modal warning: 'Delete', or dismisses it (undefined).
AnswerConfirmation(answer) ==
  /\ confirm # << >>
  /\ config' = deleteBindingWithConfirmation(config, confirm[1], answer)
  /\ confirm' = << >>
  /\ last' = Op("deleteBindingWithConfirmation", confirm[1].uri.uri, Undef, Undef, answer,
                FALSE, {s \in Scopes : config'[s] # config[s]})
  /\ UNCHANGED workspace
  /\ UNCHANGED pickVars
  /\ UNCHANGED hostVars

StoreNext ==
  \/ \E f \in foldersIn(workspace), k \in ProjectKeys, c \in {Undef, ""} \cup ConnectionIds :
       SaveBinding(k, c, f)
  \/ \E f \in foldersIn(workspace) :
       \/ DeleteBinding(WorkspaceFolderItem(f))
       \/ DeleteBinding([folder |-> f, binding |-> get(config, f.uri)])
  \/ \E c \in Connections : DeleteBindingsForConnection(c)
  \/ \E f \in foldersIn(workspace) : DeleteBindingWithConfirmation(WorkspaceFolderItem(f))
  \/ \E a \in {deleteAction, Undef} : AnswerConfirmation(a)

Spec == StoreInit /\ [][StoreNext]_vars

\* ----------------------------------------------- createOrEditBinding, by steps
\* What getRemoteProjectsForConnection can answer: a map of project key to name in
\* the order of its entries, or a failure.
RemoteProjects ==
  {[key |-> "k1", name |-> "Alpha"], [key |-> "k2", name |-> "Alpha"],
   [key |-> "k2", name |-> "Beta"]}
ProjectLists ==
  {l \in UNION {[1..n -> RemoteProjects] : n \in 0..Cardinality(ProjectKeys)} :
     \A i, j \in 1..Len(l) : i # j => l[i].key # l[j].key}
Responses ==
  {[ok |-> FALSE, projects |-> << >>]} \cup {[ok |-> TRUE, projects |-> l] : l \in ProjectLists}

\* The connections of the settings: the id of each, and the server it is on.
PickConnections ==
  {[id |-> Undef, contextValue |-> "sonarcloudConnection", serverType |-> "SonarCloud"],
   [id |-> "c1", contextValue |-> "sonarqubeConnection", serverType |-> "SonarQube"]}

\* The best hits among the server's projects for the folder, as quick-pick items:
\* some of the projects, in the server's order.
SuggestedItems(projects, serverType) ==
  {SelectSeq(toItems(projects, serverType), LAMBDA it : it.description \in keys) :
     keys \in SUBSET {projects[i].key : i \in 1..Len(projects)}}

\* pickRemoteProjectToBind up to the request getSuggestedItems sends.
pickRemoteProjectToBind(connectionId, workspaceFolder, serverType) ==
  /\ call' = [connectionId |-> connectionId, serverType |-> serverType,
              workspaceFolder |-> workspaceFolder, suggestedProjects |-> << >>]
  /\ requests' = 1
  /\ pc' = "getSuggestedItems"

\* createOrEditBinding(connectionId, contextValue, workspaceFolder?, serverType?) is
\* invoked: by ADD_PROJECT_BINDING on a connection, by EDIT_PROJECT_BINDING on a
\* bound folder of the tree.
CreateOrEditBinding(connectionId, contextValue, workspaceFolder, serverType) ==
  /\ pc = "idle" /\ ~quickPick.open /\ pending = {}
  /\ saved' = FALSE
  /\ outcome' = "pending"
  /\ last' = Op("createOrEditBinding", scopeOf(workspaceFolder), connectionId, Undef,
                Undef, FALSE, {})
  /\ IF ~workspace.opened
     THEN /\ shown' = {NoFolderToBind}
          /\ pc' = "showWarningMessage"
          /\ call' = NoCall
          /\ requests' = 0
     ELSE /\ shown' = {}
          /\ IF workspaceFolder # << >>
             THEN pickRemoteProjectToBind(connectionId, workspaceFolder,
                                          serverTypeOf(serverType, contextValue))
             ELSE IF Len(workspace.folders) = 1
             THEN pickRemoteProjectToBind(connectionId,
                                          find(workspace.folders, workspace.folders[1].name),
                                          serverTypeOf(serverType, contextValue))
             ELSE /\ call' = [connectionId |-> connectionId,
                              serverType |-> serverTypeOf(serverType, contextValue),
                              workspaceFolder |-> << >>, suggestedProjects |-> << >>]
                  /\ requests' = 0
                  /\ pc' = "showQuickPick"
  /\ UNCHANGED <<workspace, config, confirm, quickPick, pending>>
  /\ UNCHANGED hostVars

\* The user answers the 'No folder to bind' warning.
AnswerNoFolderWarning(action) ==
  /\ pc = "showWarningMessage"
  /\ pc' = "idle"
  /\ outcome' = "resolved"
  /\ last' = OpCmd("noFolderAnswer", NoFolder, Undef, Undef, action, FALSE, {},
                   IF action = OPEN_FOLDER_ACTION
                   THEN [name |-> OPEN_FOLDER, arg |-> Undef] ELSE NoCommand)
  /\ call' = NoCall
  /\ UNCHANGED <<workspace, config, confirm, quickPick, pending, shown, requests, saved>>
  /\ UNCHANGED hostVars

\* The user picks a folder name in 'Select Folder to Bind', or dismisses it.
SelectFolder(selectedFolderName) ==
  /\ pc = "showQuickPick"
  /\ pickRemoteProjectToBind(call.connectionId,
                             find(workspace.folders, selectedFolderName), call.serverType)
  /\ last' = Op("selectFolder", scopeOf(find(workspace.folders, selectedFolderName)),
                Undef, Undef, selectedFolderName, FALSE, {})
  /\ UNCHANGED <<workspace, config, confirm, quickPick, pending, shown,
                 saved, outcome>>
  /\ UNCHANGED hostVars

\* The request of getSuggestedItems (setProjectsForConnection) is answered.  With no
\* folder, getBestHitsForConnections may throw.
SuggestedProjectsResponse(response, suggestedProjects, throws) ==
  /\ pc = "getSuggestedItems"
  /\ last' = Op("getSuggestedItems", scopeOf(call.workspaceFolder), call.connectionId,
                Undef, IF response.ok THEN "ok" ELSE "failed", FALSE, {})
  /\ IF ~response.ok \/ throws
     THEN /\ pc' = "idle"
          /\ outcome' = "rejected"
          /\ call' = NoCall
          /\ UNCHANGED requests
     ELSE /\ call' = [call EXCEPT !.suggestedProjects = suggestedProjects]
          /\ requests' = requests + 1
          /\ pc' = "getRemoteProjectsItems"
          /\ UNCHANGED outcome
  /\ UNCHANGED <<workspace, config, confirm, quickPick, pending, shown, saved>>
  /\ UNCHANGED hostVars

\* The request of getRemoteProjectsItems is answered; the picker is shown.
RemoteProjectsResponse(response) ==
  /\ pc = "getRemoteProjectsItems"
  /\ LET remoteProjects == getRemoteProjectsItems(response, call.serverType)
         remoteProjectsItems == deduplicateQuickPickItems(call.suggestedProjects, remoteProjects)
         empty == response.ok /\ Len(response.projects) = 0
     IN /\ shown' = shown \cup (IF ~response.ok THEN {RequestFailed} ELSE {})
                          \cup (IF empty THEN {NoRemoteProjects} ELSE {})
        /\ pending' = pending \cup (IF empty THEN {scopeOf(call.workspaceFolder)} ELSE {})
        /\ quickPick' = [open |-> TRUE, busy |-> FALSE,
                         items |-> quickPickItems(call.suggestedProjects, remoteProjectsItems),
                         connectionId |-> call.connectionId,
                         workspaceFolder |-> call.workspaceFolder,
                         serverType |-> call.serverType,
                         suggestedProjects |-> call.suggestedProjects,
                         remoteProjects |-> remoteProjects]
  /\ pc' = "idle"
  /\ outcome' = "resolved"
  /\ last' = Op("getRemoteProjectsItems", scopeOf(call.workspaceFolder), call.connectionId,
                Undef, IF response.ok THEN "ok" ELSE "failed", FALSE, {})
  /\ call' = NoCall
  /\ UNCHANGED <<workspace, config, confirm, requests, saved>>
  /\ UNCHANGED hostVars

ChangeSelectionKeepsOpen(i) ==
  /\ quickPick.open
  /\ quickPick.items[i].kind = "item"
  /\ quickPick.workspaceFolder # << >>
  /\ config' = saveBinding(config, quickPick.items[i].description,
                           quickPick.connectionId, quickPick.workspaceFolder[1])
  /\ saved' = TRUE
  /\ last' = Op("onDidChangeSelection", scopeOf(quickPick.workspaceFolder),
                quickPick.connectionId, quickPick.items[i].description, Undef, FALSE, {})
  /\ UNCHANGED <<workspace, confirm, pc, call, quickPick, pending, shown, requests, outcome>>
  /\ UNCHANGED hostVars

\* onDidTriggerItemButton: the button of item i is pressed.
TriggerItemButton(i) ==
  /\ quickPick.open
  /\ quickPick.items[i].kind = "item"
  /\ quickPick' = [quickPick EXCEPT !.busy = TRUE]
  /\ last' = OpCmd("onDidTriggerItemButton", scopeOf(quickPick.workspaceFolder),
                   quickPick.connectionId, quickPick.items[i].description, Undef, FALSE, {},
                   [name |-> OPEN_BROWSER, arg |-> quickPick.items[i].description])
  /\ UNCHANGED <<workspace, config, confirm, pc, call, pending, shown,
                 requests, saved, outcome>>
  /\ UNCHANGED hostVars

\* onDidChangeSelection: item i is selected.  saveBinding reads workspaceFolder.name
\* first, and so throws before it stores anything when there is no folder.
ChangeSelection(i) ==
  /\ quickPick.open
  /\ quickPick.items[i].kind = "item"
  /\ LET selectedRemoteProject == quickPick.items[i]
     IN /\ IF quickPick.workspaceFolder = << >>
           THEN UNCHANGED <<config, saved>>
           ELSE /\ config' = saveBinding(config, selectedRemoteProject.description,
                                         quickPick.connectionId, quickPick.workspaceFolder[1])
                /\ saved' = TRUE
        /\ last' = Op("onDidChangeSelection", scopeOf(quickPick.workspaceFolder),
                      quickPick.connectionId, selectedRemoteProject.description, Undef,
                      FALSE, {})
  /\ quickPick' = NoQuickPick
  /\ UNCHANGED <<workspace, confirm, pc, call, pending, shown, requests, outcome>>
  /\ UNCHANGED hostVars

\* The user dismisses the picker.
HideQuickPick ==
  /\ quickPick.open
  /\ quickPick' = NoQuickPick
  /\ last' = Op("hide", NoFolder, Undef, Undef, Undef, FALSE, {})
  /\ UNCHANGED <<workspace, config, confirm, pc, call, pending, shown,
                 requests, saved, outcome>>
  /\ UNCHANGED hostVars

\* The user answers the 'No remote projects to display.' warning of a folder.
AnswerNoRemoteProjects(scope, action) ==
  /\ scope \in pending
  /\ pending' = pending \ {scope}
  /\ LET workspaceFolder == IF scope = NoFolder THEN << >>
                            ELSE <<FolderAt(workspace, scope)>>
     IN IF action = BIND_MANUALLY_ACTION
        THEN /\ config' = bindManuallyAction(config, workspaceFolder)
             /\ last' = OpCmd("bindManuallyAction", scope, Undef, Undef, action, FALSE, {},
                              [name |-> OPEN_FOLDER_SETTINGS_FILE, arg |-> Undef])
        ELSE /\ UNCHANGED config
             /\ last' = Op("noRemoteProjectsDismissed", scope, Undef, Undef, action,
                           FALSE, {})
  /\ UNCHANGED <<workspace, confirm, pc, call, quickPick, shown, requests, saved, outcome>>
  /\ UNCHANGED hostVars

\* Settings as found when the command is first invoked: per folder nothing, or a
\* binding.
PickInit ==
  /\ workspace \in NamedWorkspaces
  /\ config \in [Scopes -> {EmptyBinding,
                            [connectionId |-> "c1", projectKey |-> "k1", serverId |-> Undef]}]
  /\ \A s \in Scopes \ urisIn(workspace) : config[s] = EmptyBinding
  /\ confirm = << >>
  /\ last = NoOp
  /\ PickIdle
  /\ HostIdle

PickNext ==
  \/ \E c \in PickConnections : CreateOrEditBinding(c.id, c.contextValue, << >>, Undef)
  \/ \E c \in PickConnections, f \in foldersIn(workspace) :
       CreateOrEditBinding(c.id, c.contextValue, <<f>>, c.serverType)
  \/ \E a \in {OPEN_FOLDER_ACTION, Undef} : AnswerNoFolderWarning(a)
  \/ \E n \in {f.name : f \in foldersIn(workspace)} \cup {Undef} : SelectFolder(n)
  \/ \E r \in Responses :
       \E sp \in SuggestedItems(r.projects, call.serverType) :
         \E throws \in {FALSE} \cup {b \in {TRUE} : call.workspaceFolder = << >>} :
           SuggestedProjectsResponse(r, sp, throws)
  \/ \E r \in Responses : RemoteProjectsResponse(r)
  \/ \E i \in 1..Len(quickPick.items) : TriggerItemButton(i)
  \/ \E i \in 1..Len(quickPick.items) : ChangeSelection(i)
  \/ HideQuickPick
  \/ \E s \in pending, a \in {BIND_MANUALLY_ACTION, Undef} : AnswerNoRemoteProjects(s, a)

SpecPick == PickInit /\ [][PickNext]_vars


\* --------------------------------------------- shouldBeAutoBound, as it is asked
\* The operation record of a call that returns a value.
OpResult(name, uri, result) ==
  [op |-> name, folder |-> uri, connectionId |-> Undef, projectKey |-> Undef,
   answer |-> Undef, afterSave |-> FALSE, removed |-> {}, command |-> NoCommand,
   result |-> result]

\* What the list of ignored folders may hold: uris of folders as strings, and a
\* string that is the name of a folder, not its uri.
IgnoredStrings == {uriToString(u) : u \in FolderUris} \cup {"app"}
IgnoreLists == UNION {[1..n -> IgnoredStrings] : n \in 0..2}
Mementos ==
  {EmptyMap} \cup
  {[k \in {DO_NOT_ASK_ABOUT_AUTO_BINDING_FOR_FOLDER_FLAG} |-> l] : l \in IgnoreLists}

\* The stored bindings shouldBeAutoBound is asked about: none, the blank one of
\* 'Bind Manually', a binding, a legacy binding.
AutoBindings ==
  {EmptyBinding,
   [connectionId |-> "", projectKey |-> "", serverId |-> Undef],
   [connectionId |-> "c1", projectKey |-> "k1", serverId |-> Undef],
   [connectionId |-> Undef, projectKey |-> "k2", serverId |-> "c1"]}

ShouldBeAutoBound(workspaceFolder) ==
  /\ last' = OpResult("shouldBeAutoBound", workspaceFolder.uri,
                      shouldBeAutoBound(config, workspaceState, workspaceFolder))
  /\ UNCHANGED <<workspace, config, confirm>>
  /\ UNCHANGED pickVars
  /\ UNCHANGED hostVars

AutoInit ==
  /\ workspace \in PlainWorkspaces
  /\ config \in [Scopes -> AutoBindings]
  /\ \A s \in Scopes \ urisIn(workspace) : config[s] = EmptyBinding
  /\ workspaceState \in Mementos
  /\ rules = EmptyMap
  /\ javaServer = NoJavaServer
  /\ confirm = << >>
  /\ last = NoOp
  /\ PickIdle

AutoNext ==
  \/ \E f \in foldersIn(workspace) : ShouldBeAutoBound(f)
  \/ \E f \in foldersIn(workspace) : SaveBinding("k1", "c1", f)
  \/ \E f \in foldersIn(workspace) : DeleteBinding(WorkspaceFolderItem(f))

SpecAuto == AutoInit /\ [][AutoNext]_vars

\* ------------------------------------- DEACTIVATE_RULE / ACTIVATE_RULE commands
RuleKeys == {"java:S100", "js:S200", "py:S300"}

\* What settings.json may hold for a rule: a level, with or without parameters.
RuleEntries ==
  {[level |-> "on"], [level |-> "off"], [level |-> "on", parameters |-> "p"]}
StoredRules == UNION {[K -> RuleEntries] : K \in SUBSET RuleKeys}

RuleArguments ==
  {StringKey(k) : k \in RuleKeys} \cup
  {RuleNode(k, a) : k \in RuleKeys, a \in BOOLEAN}

\* The operation record of a toggle: the level, the rule key, how it was given, and
\* the setting as it was stored before.
OpToggle(level, ruleKey, before) ==
  [op |-> "toggleRule", folder |-> NoFolder, connectionId |-> Undef, projectKey |-> Undef,
   answer |-> Undef, afterSave |-> FALSE, removed |-> {}, command |-> NoCommand,
   level |-> level,
   key |-> IF isString(ruleKey) THEN ruleKey.string ELSE ruleKey.rule.key,
   fromCodeAction |-> isString(ruleKey),
   activeByDefault |-> IF isString(ruleKey) THEN FALSE ELSE ruleKey.rule.activeByDefault,
   before |-> before]

\* The command registered as toggleRule(level) is run with ruleKey.
ToggleRule(level, ruleKey) ==
  /\ rules' = toggleRule(rules, level, ruleKey)
  /\ last' = OpToggle(level, ruleKey, rules)
  /\ UNCHANGED <<workspace, config, confirm, workspaceState, javaServer>>
  /\ UNCHANGED pickVars

RulesInit ==
  /\ workspace \in PlainWorkspaces
  /\ Len(workspace.folders) = 1
  /\ config = [s \in Scopes |-> EmptyBinding]
  /\ workspaceState = EmptyMap
  /\ rules \in StoredRules
  /\ javaServer = NoJavaServer
  /\ confirm = << >>
  /\ last = NoOp
  /\ PickIdle

RulesNext ==
  \/ \E k \in RuleKeys : ToggleRule("off", StringKey(k))
  \/ \E k \in RuleKeys : ToggleRule("on", StringKey(k))
  \/ \E k \in RuleKeys, a \in BOOLEAN : ToggleRule("off", RuleNode(k, a))
  \/ \E k \in RuleKeys, a \in BOOLEAN : ToggleRule("on", RuleNode(k, a))

SpecRules == RulesInit /\ [][RulesNext]_vars

\* ------------------------------------------------------------- runJavaServer
\* What resolveRequirements resolves with, and what it rejects with: an error with
\* a message and, optionally, a label and a command for the label.
JavaHomes == {"/opt/jre", "/usr/lib/jvm"}
RequirementErrors ==
  [message : {"Java runtime could not be located"},
   label : {Undef, "Get the Java Runtime Environment"},
   command : {Undef, OPEN_BROWSER}]

\* The ports the operating system may give to server.listen(0).
Ports == {49152, 49153}
SocketIds == 1..MaxConnections

\* languageServerCommand(context, requirements, port): the command line of the
\* language server, which carries the Java home and the port to connect to.
languageServerCommand(requirements, port) == [javaHome |-> requirements, port |-> port]

\* logToSonarLintOutput under isVerboseEnabled()
logIfVerbose(js, lines) == IF js.verbose THEN js.log \o lines ELSE js.log

\* The language client asks for the server's streams: runJavaServer(context) calls
\* resolveRequirements.
RunJavaServer(verbose) ==
  /\ javaServer.launches < MaxLaunches
  /\ javaServer.promise.state # "pending"
  /\ ~javaServer.prompt
  /\ javaServer' = [NoJavaServer EXCEPT !.launches = javaServer.launches + 1,
                                        !.verbose = verbose,
                                        !.requirements = "pending",
                                        !.promise = [state |-> "pending", value |-> << >>]]
  /\ last' = Op("runJavaServer", NoFolder, Undef, Undef, Undef, FALSE, {})
  /\ UNCHANGED <<workspace, config, confirm, workspaceState, rules>>
  /\ UNCHANGED pickVars

RequirementsRejectedSwallowed(error) ==
  /\ javaServer.requirements = "pending"
  /\ javaServer' = [javaServer EXCEPT !.requirements = "rejected",
                                      !.error = <<error>>,
                                      !.shownError = <<error.message>>,
                                      !.prompt = TRUE,
                                      !.created = TRUE]
  /\ last' = Op("resolveRequirements", NoFolder, Undef, Undef, "rejected", FALSE, {})
  /\ UNCHANGED <<workspace, config, confirm, workspaceState, rules>>
  /\ UNCHANGED pickVars

\* resolveRequirements rejects: the catch handler shows the error and rethrows, so
\* the then handler does not run and the returned promise rejects.
RequirementsRejected(error) ==
  /\ javaServer.requirements = "pending"
  /\ javaServer' = [javaServer EXCEPT !.requirements = "rejected",
                                      !.error = <<error>>,
                                      !.shownError = <<error.message>>,
                                      !.prompt = TRUE,
                                      !.promise = [state |-> "rejected", value |-> << >>]]
  /\ last' = Op("resolveRequirements", NoFolder, Undef, Undef, "rejected", FALSE, {})
  /\ UNCHANGED <<workspace, config, confirm, workspaceState, rules>>
  /\ UNCHANGED pickVars

\* The user answers the error message: its label, or dismisses it.
AnswerErrorMessage(selection) ==
  /\ javaServer.prompt
  /\ javaServer' = [javaServer EXCEPT !.prompt = FALSE]
  /\ LET error == javaServer.error[1]
     IN last' = OpCmd("errorAnswer", NoFolder, Undef, Undef, selection, FALSE, {},
                      IF Truthy(error.label) /\ error.label = selection /\ Truthy(error.command)
                      THEN [name |-> error.command, arg |-> Undef] ELSE NoCommand)
  /\ UNCHANGED <<workspace, config, confirm, workspaceState, rules>>
  /\ UNCHANGED pickVars

\* resolveRequirements resolves: the then handler creates the server and asks it to
\* listen on port 0.
RequirementsResolved(requirements) ==
  /\ javaServer.requirements = "pending"
  /\ javaServer' = [javaServer EXCEPT !.requirements = "resolved",
                                      !.javaHome = requirements,
                                      !.created = TRUE]
  /\ last' = Op("resolveRequirements", NoFolder, Undef, Undef, "resolved", FALSE, {})
  /\ UNCHANGED <<workspace, config, confirm, workspaceState, rules>>
  /\ UNCHANGED pickVars

\* The callback of server.listen: the server listens on the port the system gave
\* it, and the child java process is spawned with that port.
Listening(address) ==
  /\ javaServer.created
  /\ javaServer.listening = << >>
  /\ LET port == address
     IN javaServer' =
          [javaServer EXCEPT !.listening = <<address>>,
                             !.process = <<languageServerCommand(javaServer.javaHome, port)>>,
                             !.log = logIfVerbose(javaServer, <<"Executing">>)]
  /\ last' = Op("listening", NoFolder, Undef, Undef, Undef, FALSE, {})
  /\ UNCHANGED <<workspace, config, confirm, workspaceState, rules>>
  /\ UNCHANGED pickVars

\* The connection listener of Net.createServer: the child process, which connects
\* to the port of its command line, is accepted with a socket; the promise
\* resolves with it, and resolving a settled promise changes nothing.
Connection(socket) ==
  /\ javaServer.listening # << >>
  /\ javaServer.process # << >>
  /\ javaServer.process[1].port = javaServer.listening[1]
  /\ \A i \in 1..Len(javaServer.sockets) : javaServer.sockets[i] # socket
  /\ javaServer' =
       [javaServer EXCEPT !.sockets = Append(@, socket),
                          !.log = logIfVerbose(javaServer,
                                               <<"Child process connected", "Java resolved">>),
                          !.promise = IF @.state = "pending"
                                      THEN [state |-> "resolved",
                                            value |-> <<[reader |-> socket, writer |-> socket]>>]
                                      ELSE @]
  /\ last' = Op("connection", NoFolder, Undef, Undef, Undef, FALSE, {})
  /\ UNCHANGED <<workspace, config, confirm, workspaceState, rules>>
  /\ UNCHANGED pickVars

JavaInit ==
  /\ workspace \in PlainWorkspaces
  /\ Len(workspace.folders) = 1
  /\ config = [s \in Scopes |-> EmptyBinding]
  /\ confirm = << >>
  /\ last = NoOp
  /\ PickIdle
  /\ HostIdle

JavaNext ==
  \/ \E verbose \in BOOLEAN : RunJavaServer(verbose)
  \/ \E error \in RequirementErrors : RequirementsRejected(error)
  \/ \E selection \in {Undef, "Get the Java Runtime Environment"} :
       AnswerErrorMessage(selection)
  \/ \E requirements \in JavaHomes : RequirementsResolved(requirements)
  \/ \E address \in Ports : Listening(address)
  \/ \E socket \in SocketIds : Connection(socket)

SpecJava == JavaInit /\ [][JavaNext]_vars

\* ----------------------------------------------------------------- claims
\* The key a bound folder is listed under: connectionId, else serverId, else '<default>'.
ListedUnder(binding) ==
  IF Truthy(binding.connectionId) THEN binding.connectionId
  ELSE IF Truthy(binding.serverId) THEN binding.serverId
  ELSE DEFAULT_CONNECTION_ID

\* The places (connection id, project key, index) of a folder in getAllBindings().
PlacesOf(all, f) ==
  {p \in UNION {UNION {{<<id, k, i>> : i \in 1..Len(all[id][k])} : k \in DOMAIN all[id]} :
                  id \in DOMAIN all} :
     all[p[1]][p[2]][p[3]].folder = f}

\* C1: once saveBinding(K, C, F) has completed, the stored binding of F is exactly
\* the pair (C, K), isBound(F) is true, and getAllBindings() lists F under
\* connection id C ('<default>' when C is undefined or empty) and project key K.
C1_SaveBindingStoresPair ==
  last.op = "saveBinding" =>
    LET F == FolderAt(workspace, last.folder)
        K == last.projectKey
        id == IF Truthy(last.connectionId) THEN last.connectionId ELSE DEFAULT_CONNECTION_ID
        all == getAllBindings(workspace, config)
    IN /\ get(config, F.uri) =
            [connectionId |-> last.connectionId, projectKey |-> K, serverId |-> Undef]
       /\ isBound(config, F)
       /\ MapHas(all, id)
       /\ MapHas(all[id], K)
       /\ \E i \in 1..Len(all[id][K]) : all[id][K][i].folder = F

C1_Witness ==
  /\ last.op = "saveBinding"
  /\ ~Truthy(last.connectionId)
  /\ Len(getAllBindings(workspace, config)[DEFAULT_CONNECTION_ID][last.projectKey]) = 2

\* C2: in every configuration state getAllBindings() partitions the bound folders:
\* a folder with a non-empty projectKey appears exactly once, under the key
\* (connectionId, else legacy serverId, else '<default>') and its projectKey; a
\* folder with no projectKey appears nowhere; no inner map or folder list is
\* empty; a folder appears if and only if isBound(folder).
C2_GetAllBindingsPartitions ==
  LET all == getAllBindings(workspace, config)
  IN /\ \A f \in foldersIn(workspace) :
          LET b == get(config, f.uri)
          IN /\ Truthy(b.projectKey) =>
                  /\ Cardinality(PlacesOf(all, f)) = 1
                  /\ \A p \in PlacesOf(all, f) :
                       /\ p[1] = ListedUnder(b)
                       /\ p[2] = b.projectKey
                       /\ all[p[1]][p[2]][p[3]].binding = b
             /\ ~Truthy(b.projectKey) => PlacesOf(all, f) = {}
             /\ (PlacesOf(all, f) # {}) <=> isBound(config, f)
     /\ \A id \in DOMAIN all :
          /\ DOMAIN all[id] # {}
          /\ \A k \in DOMAIN all[id] :
               /\ Len(all[id][k]) > 0
               /\ \A i \in 1..Len(all[id][k]) : all[id][k][i].folder \in foldersIn(workspace)

C2_Witness ==
  /\ \E f \in foldersIn(workspace) :
       /\ ~Truthy(get(config, f.uri).connectionId)
       /\ Truthy(get(config, f.uri).serverId)
       /\ PlacesOf(getAllBindings(workspace, config), f) # {}
  /\ \E f \in foldersIn(workspace) :
       /\ get(config, f.uri).projectKey = ""
       /\ Truthy(get(config, f.uri).connectionId)

\* C3: after deleteBinding(F) completes, F is no longer bound, also when its binding
\* was created by saveBinding, and the binding of every other folder is unchanged.
C3_DeleteBindingUnbindsOnlyF ==
  [][last'.op = "deleteBinding" =>
       /\ ~isBound(config', FolderAt(workspace, last'.folder))
       /\ \A s \in Scopes \ {last'.folder} : config'[s] = config[s]]_vars

C3_Witness ==
  /\ last.op = "deleteBinding"
  /\ last.afterSave
  /\ ~isBound(config, FolderAt(workspace, last.folder))
  /\ \E f \in foldersIn(workspace) : isBound(config, f)

\* C4: after deleteBindingsForConnection(connection) completes, getAllBindings()
\* holds no folder under that connection's id (no id counts as '<default>', the
\* legacy serverId counts), and every folder bound to a different connection id
\* keeps its binding unchanged.
C4_DeleteBindingsForConnection ==
  [][last'.op = "deleteBindingsForConnection" =>
       LET id == IF Truthy(last'.connectionId) THEN last'.connectionId
                 ELSE DEFAULT_CONNECTION_ID
       IN /\ ~MapHas(getAllBindings(workspace', config'), id)
          /\ \A f \in foldersIn(workspace) :
               ListedUnder(get(config, f.uri)) # id => config'[f.uri] = config[f.uri]
          /\ \A f \in foldersIn(workspace) :
               ~(isBound(config', f) /\ ListedUnder(get(config', f.uri)) = id)]_vars

C4_Witness ==
  /\ last.op = "deleteBindingsForConnection"
  /\ ~Truthy(last.connectionId)
  /\ last.removed # {}
  /\ \E f \in foldersIn(workspace) : isBound(config, f)

\* C5: deleteBindingWithConfirmation(binding) deletes the binding only when the
\* user answers the modal warning with 'Delete'; when the user dismisses it, the
\* configuration of every workspace folder is unchanged.
C5_DeleteOnlyWhenConfirmed ==
  [][/\ last'.op = "showWarningMessage" => config' = config
     /\ last'.op = "deleteBindingWithConfirmation" =>
          /\ last'.answer # deleteAction => config' = config
          /\ last'.answer = deleteAction =>
               /\ ~isBound(config', FolderAt(workspace, last'.folder))
               /\ \A s \in Scopes \ {last'.folder} : config'[s] = config[s]]_vars

C5_Witness ==
  /\ last.op = "deleteBindingWithConfirmation"
  /\ last.answer = Undef
  /\ isBound(config, FolderAt(workspace, last.folder))

\* The keys (descriptions) of a list of quick-pick items.
KeysOf(items) == {items[i].description : i \in 1..Len(items)}
ElemsOf(items) == {items[i] : i \in 1..Len(items)}

\* C6: the picker lists 'Suggested Projects', the suggested projects, 'All
\* Projects', then the remaining remote projects; no key of the 'All Projects'
\* section is a suggested key, every remote project that is not suggested is
\* there, and the section is sorted by label.
C6_PickerItems ==
  [][\A r \in Responses : RemoteProjectsResponse(r) =>
       LET items == quickPick'.items
           suggested == call.suggestedProjects
           n == Len(suggested)
           rest == SubSeq(items, n + 3, Len(items))
           remote == IF r.ok THEN ElemsOf(toItems(r.projects, call.serverType)) ELSE {}
       IN /\ quickPick'.open
          /\ Len(items) >= n + 2
          /\ items[1] = Separator(SuggestedProjectsLabel)
          /\ SubSeq(items, 2, n + 1) = suggested
          /\ items[n + 2] = Separator(AllProjectsLabel)
          /\ KeysOf(rest) \cap KeysOf(suggested) = {}
          /\ ElemsOf(rest) = {it \in remote : it.description \notin KeysOf(suggested)}
          /\ Len(rest) = Cardinality(ElemsOf(rest))
          /\ \A i, j \in 1..Len(rest) :
               i < j => localeCompare(rest[i].label, rest[j].label) <= 0]_vars

C6_Witness ==
  /\ quickPick.open
  /\ Len(quickPick.suggestedProjects) = 1
  /\ Len(quickPick.remoteProjects) = 2
  /\ Len(quickPick.items) = 4
  /\ quickPick.items[4].label = quickPick.items[2].label

\* C7: selecting a project in the picker saves the binding (connectionId, key of the
\* selected project) for the chosen workspace folder and closes the picker;
\* pressing an item's 'View in <server>' button opens the project page in the
\* browser, saves no binding and leaves the picker open.
C7_SelectSavesButtonBrowses ==
  [][/\ last'.op = "onDidChangeSelection" =>
          /\ ~quickPick'.open
          /\ last'.projectKey \in KeysOf(SelectSeq(quickPick.items, LAMBDA it : it.kind = "item"))
          /\ quickPick.workspaceFolder # << >> =>
               /\ get(config', quickPick.workspaceFolder[1].uri) =
                    [connectionId |-> quickPick.connectionId,
                     projectKey |-> last'.projectKey, serverId |-> Undef]
               /\ \A s \in Scopes \ {quickPick.workspaceFolder[1].uri} :
                    config'[s] = config[s]
     /\ last'.op = "onDidTriggerItemButton" =>
          /\ config' = config
          /\ saved' = saved
          /\ quickPick'.open
          /\ quickPick'.items = quickPick.items
          /\ last'.command = [name |-> OPEN_BROWSER, arg |-> last'.projectKey]
          /\ \E i \in 1..Len(quickPick.items) :
               /\ quickPick.items[i].description = last'.projectKey
               /\ quickPick.items[i].tooltip \in {"View in SonarQube", "View in SonarCloud"}]_vars

C7_Witness ==
  /\ last.op = "onDidChangeSelection"
  /\ last.folder # NoFolder
  /\ last.connectionId = Undef
  /\ get(config, last.folder).projectKey = "k2"
  /\ ~quickPick.open

\* C8: when no workspace folder is open, createOrEditBinding shows the 'No folder
\* to bind' warning, sends no remote-project request, saves no binding, and runs
\* the open-folder command only when the user picks 'Open Folder'.
C8_NoFolderWarns ==
  (Len(workspaceFoldersOrEmpty(workspace)) = 0 /\ outcome # "none") =>
    /\ NoFolderToBind \in shown
    /\ requests = 0
    /\ ~saved
    /\ last.command.name = OPEN_FOLDER => last.answer = OPEN_FOLDER_ACTION

\* C9: whenever a remote-project request fails during createOrEditBinding, the user
\* is shown the 'Request Failed' error, the failure does not escape as a
\* rejection, and no binding is saved.
C9_RequestFailureHandled ==
  (last.op \in {"getSuggestedItems", "getRemoteProjectsItems"} /\ last.answer = "failed") =>
    /\ RequestFailed \in shown
    /\ outcome # "rejected"
    /\ ~saved

\* C10: when the connection has no remote projects the warning 'No remote projects
\* to display.' is shown; 'Bind Manually' writes the blank binding only when the
\* folder's stored binding has no projectKey, so that an existing binding is never
\* overwritten, and then opens the folder settings file.
C10_BindManually ==
  [][/\ \A r \in Responses :
          (RemoteProjectsResponse(r) /\ r.ok /\ r.projects = << >>) =>
            /\ NoRemoteProjects \in shown'
            /\ scopeOf(call.workspaceFolder) \in pending'
     /\ last'.op = "bindManuallyAction" =>
          /\ get(config, last'.folder).projectKey = Undef =>
               config'[last'.folder] =
                 [connectionId |-> "", projectKey |-> "", serverId |-> Undef]
          /\ get(config, last'.folder).projectKey # Undef => config' = config
          /\ \A s \in Scopes \ {last'.folder} : config'[s] = config[s]
          /\ last'.command = [name |-> OPEN_FOLDER_SETTINGS_FILE, arg |-> Undef]
     /\ last'.op = "noRemoteProjectsDismissed" => config' = config]_vars

C10_Witness ==
  /\ last.op = "bindManuallyAction"
  /\ last.folder # NoFolder
  /\ NoRemoteProjects \in shown
  /\ isBound(config, FolderAt(workspace, last.folder))

\* C11: shouldBeAutoBound(F) is true if and only if F has no project key bound and
\* the uri of F is not in the workspace-state list
\* 'doNotAskAboutAutoBindingForFolder'; a bound folder and an ignored folder are
\* never proposed.
C11_ShouldBeAutoBound ==
  last.op = "shouldBeAutoBound" =>
    LET F == FolderAt(workspace, last.folder)
        stored == IF "doNotAskAboutAutoBindingForFolder" \in DOMAIN workspaceState
                  THEN workspaceState["doNotAskAboutAutoBindingForFolder"] ELSE << >>
        ignored == \E i \in 1..Len(stored) : stored[i] = uriToString(F.uri)
        noKey == get(config, F.uri).projectKey \in {Undef, ""}
    IN /\ last.result <=> (noKey /\ ~ignored)
       /\ isBound(config, F) => ~last.result
       /\ ignored => ~last.result

C11_Witness ==
  /\ last.op = "shouldBeAutoBound"
  /\ ~last.result
  /\ ~isBound(config, FolderAt(workspace, last.folder))
  /\ \E f \in foldersIn(workspace) :
       /\ shouldBeAutoBound(config, workspaceState, f)
       /\ get(config, f.uri).projectKey = ""

\* The entries of every rule key but one are the same in two stored settings.
SameElsewhere(a, b, key) ==
  \A k \in RuleKeys \ {key} :
    /\ (k \in DOMAIN a) <=> (k \in DOMAIN b)
    /\ k \in DOMAIN a => a[k] = b[k]

\* C12: toggling a rule from the list of rules (a RuleNode) leaves an override
\* {level} stored for its key if and only if the level differs from the rule's
\* default activation; when the level equals the default the entry is removed.
\* The entries of all other rule keys are unchanged.
C12_ToggleRuleNode ==
  [][(last'.op = "toggleRule" /\ ~last'.fromCodeAction) =>
       LET key == last'.key
           differs == (last'.level = "on") # last'.activeByDefault
       IN /\ differs => (key \in DOMAIN rules' /\ rules'[key] = [level |-> last'.level])
          /\ ~differs => key \notin DOMAIN rules'
          /\ SameElsewhere(rules', rules, key)]_vars

C12_Witness ==
  /\ last.op = "toggleRule"
  /\ ~last.fromCodeAction
  /\ last.level = "off" /\ ~last.activeByDefault
  /\ last.key \in DOMAIN last.before
  /\ last.key \notin DOMAIN rules
  /\ DOMAIN rules # {}

\* C13: deactivating a rule from a code action, where only the key string is
\* known, stores {level} for the key whatever the rule's default activation is,
\* and applying the same toggle again leaves the same 'rules' setting.
C13_ToggleRuleKey ==
  [][(last'.op = "toggleRule" /\ last'.fromCodeAction) =>
       /\ last'.key \in DOMAIN rules'
       /\ rules'[last'.key] = [level |-> last'.level]
       /\ toggleRule(rules', last'.level, StringKey(last'.key)) = rules'
       /\ toggleRule(toggleRule(rules, last'.level, StringKey(last'.key)),
                     last'.level, StringKey(last'.key)) =
            toggleRule(rules, last'.level, StringKey(last'.key))]_vars

C13_Witness ==
  /\ last.op = "toggleRule"
  /\ last.fromCodeAction
  /\ last.level = "off"
  /\ last.key \in DOMAIN last.before
  /\ last.before[last.key] = [level |-> "on", parameters |-> "p"]
  /\ rules[last.key] = [level |-> "off"]

\* C14: when the Java requirements cannot be resolved, runJavaServer shows the
\* error message, opens no listening socket, spawns no language-server process
\* and its promise rejects; when they are resolved, the process is spawned only
\* once the local server socket is listening, with that socket's port, and the
\* promise resolves with the socket of the connecting child process.
C14_RunJavaServer ==
  /\ javaServer.requirements = "rejected" =>
       /\ javaServer.shownError = <<javaServer.error[1].message>>
       /\ ~javaServer.created
       /\ javaServer.listening = << >>
       /\ javaServer.process = << >>
       /\ javaServer.promise.state = "rejected"
  /\ javaServer.promise.state = "rejected" => javaServer.requirements = "rejected"
  /\ javaServer.process # << >> =>
       /\ javaServer.requirements = "resolved"
       /\ javaServer.listening # << >>
       /\ javaServer.process[1].port = javaServer.listening[1]
       /\ javaServer.process[1].javaHome = javaServer.javaHome
  /\ javaServer.promise.state = "resolved" =>
       /\ javaServer.process # << >>
       /\ javaServer.sockets # << >>
       /\ javaServer.promise.value =
            <<[reader |-> javaServer.sockets[1], writer |-> javaServer.sockets[1]]>>
  /\ (javaServer.requirements = "resolved" /\ javaServer.sockets = << >>) =>
       javaServer.promise.state = "pending"

C14_Witness ==
  /\ javaServer.launches = 2
  /\ javaServer.promise.state = "resolved"
  /\ Len(javaServer.sockets) = 2
  /\ javaServer.promise.value[1].reader = javaServer.sockets[1]
  /\ javaServer.process[1].port = 49153

====
